---- MODULE Spec2Model ----
(***************************************************************************)
(* Model of the Backeum donation component: the Repository blueprint       *)
(* (src/src/repository.rs) that owns the trophy resource, and the          *)
(* Collection blueprint (src/src/collection.rs) that custodies one         *)
(* creator's donations and mints / updates trophies.                       *)
(*                                                                         *)
(* Every public method is one atomic step (a ledger transaction).  A call  *)
(* that panics or fails its method authorization aborts: it leaves the     *)
(* ledger as it was and is recorded in `last` only.                        *)
(***************************************************************************)
EXTENDS Integers, Sequences, FiniteSets, TLC

(***************************************************************************)
(* Bounds of the model.                                                    *)
(***************************************************************************)
\* Collections provisioned, and transactions committed, in a run.
MaxCollections == 2
MaxTransactions == 5
\* Trophies in one merge bucket.
MaxBucket == 3

(***************************************************************************)
(* Inputs.                                                                 *)
(***************************************************************************)
Accounts == {"owner", "ann"}

\* The accounts that donate (and so come to hold trophies).
Donors == {"ann"}

\* Payment buckets handed to donate_mint / donate_update (XRD amounts).
Amounts == {50}

\* Arguments of a provisioning call: the creator's account and the
\* user_name, user_slug and royalty_amount handed to Collection::new.
AnnProfile == [caller |-> "ann", user_name |-> "Ann", user_slug |-> "ann", royalty_amount |-> 5]
BobProfile == [caller |-> "owner", user_name |-> "Bob", user_slug |-> "bob", royalty_amount |-> 7]

\* The first Collection is Ann's; a later one is a second Collection of
\* Ann's or Bob's.
ProfilesFor(c) == IF c = 1 THEN {AnnProfile} ELSE {AnnProfile, BobProfile}

\* Base paths: the one the test deploys with and the one it migrates to.
InitialBasePath == "https://localhost:8080/nft_image"
BasePaths == {InitialBasePath, "https://some_other_url/nft_image"}

\* Resource addresses.
XRD == <<"xrd", 0>>
repository_owner_access_badge_address == <<"owner_badge", 0>>
trophy_resource_address == <<"trophy", 0>>
minter_badge_address == <<"minter_badge", 0>>
\* Faulty variant of admin_badge_address: one admin badge resource for all Collections.
shared_admin_badge_address(c) == <<"admin_badge", 0>>
\* Each Collection::new creates its own admin badge resource.
admin_badge_address(c) == <<"admin_badge", c>>

\* Access rules of the non_fungible_data_updater role: the badges any one of
\* which satisfies the rule, and whether the Repository component as global
\* caller does.  InitialUpdaterRule is the rule Repository::new assigns;
\* WidenedUpdaterRule is the rule the holder of the owner badge is taken to
\* assign in its place: it keeps the Collections and the Repository
\* authorized and admits the owner badge as well.
InitialUpdaterRule == [require_any_of |-> {minter_badge_address}, global_caller |-> TRUE]
WidenedUpdaterRule ==
    [require_any_of |-> {minter_badge_address, repository_owner_access_badge_address},
     global_caller |-> TRUE]
UpdaterRules == {WidenedUpdaterRule}

\* The ledger clock, in minutes since the Unix epoch.  ClockStart is
\* 2024-01-10 00:00 UTC; one tick is 52 days and 12 hours.
ClockStart == 28414080
TickMinutes == 75600

(***************************************************************************)
(* Dates: UtcDateTime <-> Instant, and the "y-m-d" created string.         *)
(***************************************************************************)
days_from_civil(y, m, d) ==
    LET yy  == IF m <= 2 THEN y - 1 ELSE y
        era == yy \div 400
        yoe == yy - era * 400
        mp  == IF m > 2 THEN m - 3 ELSE m + 9
        doy == (153 * mp + 2) \div 5 + d - 1
        doe == yoe * 365 + yoe \div 4 - yoe \div 100 + doy
    IN  era * 146097 + doe - 719468

civil_from_days(days) ==
    LET z   == days + 719468
        era == z \div 146097
        doe == z - era * 146097
        yoe == (doe - doe \div 1460 + doe \div 36524 - doe \div 146096) \div 365
        doy == doe - (365 * yoe + yoe \div 4 - yoe \div 100)
        mp  == (5 * doy + 2) \div 153
        d   == doy - (153 * mp + 2) \div 5 + 1
        m   == IF mp < 10 THEN mp + 3 ELSE mp - 9
        y   == yoe + era * 400 + (IF m <= 2 THEN 1 ELSE 0)
    IN  [year |-> y, month |-> m, day_of_month |-> d]

\* UtcDateTime::from_instant
from_instant(instant) ==
    LET date == civil_from_days(instant \div 1440)
        rem  == instant % 1440
    IN  [year |-> date.year, month |-> date.month, day_of_month |-> date.day_of_month,
         hour |-> rem \div 60, minute |-> rem % 60]

\* UtcDateTime::to_instant
to_instant(time) ==
    days_from_civil(time.year, time.month, time.day_of_month) * 1440
        + time.hour * 60 + time.minute

DigitChar == <<"0", "1", "2", "3", "4", "5", "6", "7", "8", "9">>

\* Display of an unsigned integer: its decimal digits, no padding.
RECURSIVE Digits(_)
Digits(n) ==
    IF n < 10 THEN <<DigitChar[n + 1]>>
    ELSE Digits(n \div 10) \o <<DigitChar[(n % 10) + 1]>>

\* format!("{}-{}-{}", time.year(), time.month(), time.day_of_month())
format_date(time) ==
    Digits(time.year) \o <<"-">> \o Digits(time.month) \o <<"-">> \o Digits(time.day_of_month)

DigitValue(ch) ==
    CASE ch = "0" -> 0 [] ch = "1" -> 1 [] ch = "2" -> 2 [] ch = "3" -> 3 [] ch = "4" -> 4
      [] ch = "5" -> 5 [] ch = "6" -> 6 [] ch = "7" -> 7 [] ch = "8" -> 8 [] ch = "9" -> 9

\* The number written by a sequence of digit characters.
RECURSIVE ParseNat(_)
ParseNat(s) ==
    IF s = << >> THEN 0
    ELSE ParseNat(SubSeq(s, 1, Len(s) - 1)) * 10 + DigitValue(s[Len(s)])

\* Positions of the "-" separators of a created string.
Dashes(s) == {i \in 1..Len(s) : s[i] = "-"}
MinOf(S) == CHOOSE x \in S : \A y \in S : x <= y
MaxOf(S) == CHOOSE x \in S : \A y \in S : y <= x

\* util::parse_created_string: a "y-m-d" string back to the date, at midnight.
parse_created_string(created) ==
    LET d1 == MinOf(Dashes(created))
        d2 == MaxOf(Dashes(created))
    IN  [year |-> ParseNat(SubSeq(created, 1, d1 - 1)),
         month |-> ParseNat(SubSeq(created, d1 + 1, d2 - 1)),
         day_of_month |-> ParseNat(SubSeq(created, d2 + 1, Len(created))),
         hour |-> 0, minute |-> 0]

\* util::generate_created_string(time): the created string of a date.
created_string_of(time) == format_date(time)

(***************************************************************************)
(* URL derivation.                                                         *)
(***************************************************************************)
\* format!("{}/nft/collection/{}?donated={}&created={}", ...): the pieces of
\* the formatted string, in order.
generate_url(base_path, donated, created, collection_id) ==
    <<base_path, "/nft/collection/", collection_id, "?donated=", donated, "&created=", created>>

(***************************************************************************)
(* State.                                                                  *)
(***************************************************************************)
VARIABLES
    domain,               \* "domain" metadata of the trophy resource manager
    trophies,             \* live non-fungibles of the trophy resource: local id -> data
    holder,               \* live non-fungibles: local id -> the account whose vault holds it
    next_ruid,            \* the next fresh local id the resource manager hands out
    collections,          \* the globalized Collection components, in provisioning order
    minter_badge_supply,  \* total supply of the minter badge resource
    non_fungible_data_updater,  \* the access rule now assigned to that role of the trophy resource
    badges,               \* account -> resource addresses of the badges it holds
    now,                  \* Clock::current_time_rounded_to_minutes
    ledger,               \* history of each live trophy: payments and donations counted,
                          \* and whether a merge or a direct write made its data
    book,                 \* what the committed calls moved: per Collection the payments
                          \* put in and the amounts withdrawn, the total credited to
                          \* trophies, and whether a trophy was written from a manifest
    transactions,         \* number of transactions committed so far
    last                  \* the transaction just executed and its outcome

vars == <<domain, trophies, holder, next_ruid, collections, minter_badge_supply,
          non_fungible_data_updater, badges, now, ledger, book, transactions, last>>

Live == DOMAIN trophies
CollectionIndexes == 1..Len(collections)

Init ==
    /\ domain = InitialBasePath
    /\ trophies = << >>
    /\ holder = << >>
    /\ next_ruid = 1
    /\ collections = << >>
    /\ minter_badge_supply = 0
    /\ non_fungible_data_updater = InitialUpdaterRule
    /\ badges = [a \in Accounts |->
                    IF a = "owner" THEN {repository_owner_access_badge_address} ELSE {}]
    /\ now = ClockStart
    /\ ledger = << >>
    /\ book = [paid_in |-> << >>, paid_out |-> << >>, credited |-> 0, overwritten |-> FALSE]
    /\ transactions = 0
    /\ last = [op |-> "new", caller |-> "owner", component |-> 0, arg |-> InitialBasePath,
               committed |-> TRUE, ids |-> {}, out |-> 0]

\* The receipt of a transaction: the method called, by whom, on which
\* Collection (0: the Repository), its argument, its outcome, the trophies it
\* was handed or touched, and what it returned.
Receipt(op, caller, component, arg, committed, ids, out) ==
    [op |-> op, caller |-> caller, component |-> component, arg |-> arg,
     committed |-> committed, ids |-> ids, out |-> out]

\* A transaction that fails commits nothing.  It leaves the ledger as it
\* was, so whatever call can fail after a failed one could fail in its place:
\* runs are taken with no two failed transactions in a row, which reach the
\* same states.
Abort(op, caller, component, arg, ids) ==
    /\ last.committed
    /\ last' = Receipt(op, caller, component, arg, FALSE, ids, 0)
    /\ UNCHANGED <<domain, trophies, holder, next_ruid, collections, minter_badge_supply, non_fungible_data_updater,
                   badges, now, ledger, transactions, book>>

\* A transaction that commits, with its receipt.
Commit(op, caller, component, arg, ids, out) ==
    /\ transactions < MaxTransactions
    /\ transactions' = transactions + 1
    /\ last' = Receipt(op, caller, component, arg, TRUE, ids, out)

(***************************************************************************)
(* Authorization.                                                          *)
(***************************************************************************)
\* The proofs a transaction signed by `caller` can put in its auth zone.
AuthZoneOf(caller) == badges[caller]

\* Faulty variant of repository_method_auth: every method is PUBLIC.
repository_method_public(method, caller) == TRUE

\* Repository: enable_method_auth!
repository_method_auth(method, caller) ==
    CASE method = "update_base_path" ->
            repository_owner_access_badge_address \in AuthZoneOf(caller)
      [] OTHER -> TRUE

\* Faulty variant of collection_method_auth: every method is PUBLIC.
collection_method_public(method, c, caller) == TRUE

\* Collection: enable_method_auth!, with admin => require(admin_badge).
collection_method_auth(method, c, caller) ==
    CASE method = "withdraw_donations" -> collections[c].admin \in AuthZoneOf(caller)
      [] OTHER -> TRUE

\* Roles of the trophy resource: what the local auth zone (proofs pushed by
\* the component) and the calling global component must satisfy.
minter_rule(proofs, global_caller) ==
    minter_badge_address \in proofs \/ global_caller = "repository"
burner_rule(proofs, global_caller) == global_caller = "repository"
\* Faulty variant of non_fungible_data_updater_rule: allow_all.
non_fungible_data_updater_allow_all(proofs, global_caller) == TRUE

non_fungible_data_updater_rule(proofs, global_caller) ==
    \/ non_fungible_data_updater.require_any_of \cap proofs # {}
    \/ non_fungible_data_updater.global_caller /\ global_caller = "repository"
\* non_fungible_data_updater_updater => repository_owner_badge_access_rule
non_fungible_data_updater_updater_rule(proofs, global_caller) ==
    repository_owner_access_badge_address \in proofs

\* LocalAuthZone::push(self.minter_badge.as_fungible().create_proof_of_amount(1))
minter_proof(c) == IF collections[c].minter_badge >= 1 THEN {minter_badge_address} ELSE {}

(***************************************************************************)
(* Resource manager operations on the trophy resource.                     *)
(***************************************************************************)
\* Faulty variant of burn: only the lowest of the ids is burned.
burn_lowest_only(t, ids) ==
    [i \in (DOMAIN t) \ {j \in ids : \A k \in ids : j <= k} |-> t[i]]

\* Faulty variant of burn: nothing is burned.
burn_nothing(t, ids) == t

mint_ruid_non_fungible(t, id, data) == (id :> data) @@ t
\* Faulty variant of update_non_fungible_data: the whole record is written
\* back, with created set to today's date string.
update_non_fungible_data_and_created(t, id, field, value) ==
    [t EXCEPT ![id][field] = value,
              ![id].created = format_date(from_instant(now))]
update_non_fungible_data(t, id, field, value) == [t EXCEPT ![id][field] = value]
burn(t, ids) == [i \in (DOMAIN t) \ ids |-> t[i]]

RECURSIVE SumOver(_, _)
SumOver(f, S) ==
    IF S = {} THEN 0
    ELSE LET x == CHOOSE y \in S : TRUE IN f[x] + SumOver(f, S \ {x})

(***************************************************************************)
(* Clock.                                                                  *)
(***************************************************************************)
Tick ==
    /\ now' = now + TickMinutes
    /\ Commit("tick", "owner", 0, 0, {}, 0)
    /\ UNCHANGED <<domain, trophies, holder, next_ruid, collections, minter_badge_supply, non_fungible_data_updater,
                   badges, ledger, book>>

\* collection.rs generate_created_string(): today's date string.
generate_created_string == format_date(from_instant(now))

(***************************************************************************)
(* Repository::new_collection_component and Collection::new.               *)
(***************************************************************************)
\* Faulty variant of deposited: the royalty is put into the vault as well.
deposited_with_royalty(tokens, royalty_amount) == tokens + royalty_amount

\* self.donations.put(tokens): the amount the vault receives is the payment;
\* royalty_amount is only counted on the trophy.
deposited(tokens, royalty_amount) == tokens

\* Faulty variant of donated_after: the total is assigned, not accumulated.
donated_assigned(donated, tokens, royalty_amount) == tokens + royalty_amount

\* Faulty variant of donated_after: the royalty is not added.
donated_without_royalty(donated, tokens, royalty_amount) == donated + tokens

\* data.donated += tokens.amount(); data.donated += self.royalty_amount;
donated_after(donated, tokens, royalty_amount) == (donated + tokens) + royalty_amount

\* Faulty variant of returned_to_creator: the minter badge is handed out too.
returned_with_minter_badge(admin_badge) == {admin_badge, minter_badge_address}

\* (component, admin_badge.into()): the badges Collection::new returns to the
\* caller; the minter badge stays in the component's vault.
returned_to_creator(admin_badge) == {admin_badge}

\* Collection::new takes collection_id and royalty_amount as arguments; the
\* collection_id of the c-th Collection is c, so no two Collections share one.
new_collection_component(profile) ==
    /\ Len(collections) < MaxCollections
    /\ LET c == Len(collections) + 1
           component == [minter_badge |-> 1,
                         donations |-> 0,
                         user_name |-> profile.user_name,
                         user_slug |-> profile.user_slug,
                         collection_id |-> c,
                         royalty_amount |-> profile.royalty_amount,
                         admin |-> admin_badge_address(c)]
       IN  /\ collections' = Append(collections, component)
           /\ minter_badge_supply' = minter_badge_supply + 1
           /\ badges' = [badges EXCEPT ![profile.caller] =
                                     @ \cup returned_to_creator(admin_badge_address(c))]
           /\ book' = [book EXCEPT !.paid_in = Append(@, 0), !.paid_out = Append(@, 0)]
           /\ Commit("new_collection_component", profile.caller, c, profile.royalty_amount, {}, 0)
    /\ UNCHANGED <<domain, trophies, holder, next_ruid, non_fungible_data_updater, now, ledger>>

(***************************************************************************)
(* Collection::donate_mint.                                                *)
(***************************************************************************)
\* Faulty variant of generate_ruid: the id handed out last is handed out again.
generate_ruid_again(ruid) == IF ruid > 1 THEN ruid - 1 ELSE ruid

\* The local id mint_ruid_non_fungible gives the trophy it mints: one the
\* resource manager never handed out before.
generate_ruid(ruid) == ruid

\* The body of donate_mint on Collection c, run on the trophies t and the
\* components cs with `ruid` the next fresh local id: whether it panicked,
\* and what it wrote.
donate_mint_body(t, cs, ruid, c, tokens) ==
    LET self == cs[c]
        created == generate_created_string
        data == [name |-> <<self.user_name, "'s Trophy">>,
                 info_url |-> <<domain, "/p/", self.user_slug>>,
                 collection_id |-> self.collection_id,
                 created |-> created,
                 donated |-> 0,
                 key_image_url |-> << >>]
        nft_id == generate_ruid(ruid)
        minted == mint_ruid_non_fungible(t, nft_id, data)
        donated == donated_after(data.donated, tokens, self.royalty_amount)
        key_image_url == generate_url(domain, donated, data.created, self.collection_id)
    IN  IF ~(/\ minter_rule(minter_proof(c), "collection")
             /\ non_fungible_data_updater_rule(minter_proof(c), "collection"))
        THEN [panicked |-> TRUE, trophies |-> t, collections |-> cs, ids |-> {}]
        ELSE [panicked |-> FALSE,
              trophies |-> update_non_fungible_data(
                               update_non_fungible_data(minted, nft_id, "donated", donated),
                               nft_id, "key_image_url", key_image_url),
              collections |-> [cs EXCEPT ![c].donations = @ + deposited(tokens, self.royalty_amount)],
              ids |-> {nft_id}]

donate_mint(caller, c, tokens) ==
    /\ c \in CollectionIndexes
    /\ LET run == donate_mint_body(trophies, collections, next_ruid, c, tokens) IN
       IF ~collection_method_auth("donate_mint", c, caller) \/ run.panicked
       THEN Abort("donate_mint", caller, c, tokens, {})
       ELSE /\ trophies' = run.trophies
            /\ collections' = run.collections
            /\ next_ruid' = next_ruid + 1
            /\ holder' = [i \in run.ids |-> caller] @@ holder
            /\ ledger' = [i \in run.ids |->
                             [payments |-> tokens, count |-> 1, merged |-> FALSE]] @@ ledger
            /\ book' = [book EXCEPT !.paid_in[c] = @ + tokens,
                                     !.credited = @ + tokens + collections[c].royalty_amount]
            /\ Commit("donate_mint", caller, c, tokens, run.ids, CHOOSE i \in run.ids : TRUE)
            /\ UNCHANGED <<domain, minter_badge_supply, non_fungible_data_updater, badges, now>>

(***************************************************************************)
(* Collection::donate_update.                                              *)
(***************************************************************************)
\* The proofs `caller` can create from its account: of its XRD, and of each
\* trophy it holds.
ProofsOf(caller) ==
    {[resource_address |-> XRD, local_id |-> 0]}
        \cup {[resource_address |-> trophy_resource_address, local_id |-> i] :
                 i \in {j \in Live : holder[j] = caller}}

\* Faulty variant of donate_update_body: a proof of another resource is
\* passed over silently and the payment is kept.
donate_update_body_ignoring_mismatch(t, cs, c, tokens, proof) ==
    LET self == cs[c]
        nft_id == proof.local_id
        data == t[nft_id]
        donated == donated_after(data.donated, tokens, self.royalty_amount)
        key_image_url == generate_url(domain, donated, data.created, self.collection_id)
    IN  IF proof.resource_address # trophy_resource_address
        THEN [panicked |-> FALSE, trophies |-> t,
              collections |-> [cs EXCEPT ![c].donations = @ + tokens], ids |-> {}]
        ELSE [panicked |-> FALSE,
              trophies |-> update_non_fungible_data(
                               update_non_fungible_data(t, nft_id, "donated", donated),
                               nft_id, "key_image_url", key_image_url),
              collections |-> [cs EXCEPT ![c].donations = @ + tokens],
              ids |-> {nft_id}]

\* The body of donate_update on Collection c, run on the trophies t and the
\* components cs: whether it panicked, and what it wrote.  proof.check
\* panics on a proof of another resource; reading a local id that is not
\* live panics.
donate_update_body(t, cs, c, tokens, proof) ==
    LET self == cs[c]
        nft_id == proof.local_id
        data == t[nft_id]
        donated == donated_after(data.donated, tokens, self.royalty_amount)
        key_image_url == generate_url(domain, donated, data.created, self.collection_id)
    IN  IF \/ proof.resource_address # trophy_resource_address
           \/ nft_id \notin DOMAIN t
           \/ ~non_fungible_data_updater_rule(minter_proof(c), "collection")
        THEN [panicked |-> TRUE, trophies |-> t, collections |-> cs, ids |-> {}]
        ELSE [panicked |-> FALSE,
              trophies |-> update_non_fungible_data(
                               update_non_fungible_data(t, nft_id, "donated", donated),
                               nft_id, "key_image_url", key_image_url),
              collections |-> [cs EXCEPT ![c].donations = @ + deposited(tokens, self.royalty_amount)],
              ids |-> {nft_id}]

donate_update(caller, c, tokens, proof) ==
    /\ c \in CollectionIndexes
    /\ proof \in ProofsOf(caller)
    /\ LET run == donate_update_body(trophies, collections, c, tokens, proof) IN
       IF ~collection_method_auth("donate_update", c, caller) \/ run.panicked
       THEN Abort("donate_update", caller, c, [tokens |-> tokens, proof |-> proof], {})
       ELSE /\ trophies' = run.trophies
            /\ collections' = run.collections
            /\ ledger' = [i \in DOMAIN ledger |->
                             IF i \in run.ids
                             THEN [ledger[i] EXCEPT !.payments = @ + tokens, !.count = @ + 1]
                             ELSE ledger[i]]
            /\ book' = [book EXCEPT !.paid_in[c] = @ + tokens,
                                     !.credited = @ + tokens + collections[c].royalty_amount]
            /\ Commit("donate_update", caller, c, [tokens |-> tokens, proof |-> proof], run.ids, 0)
            /\ UNCHANGED <<domain, holder, next_ruid, minter_badge_supply,
                           non_fungible_data_updater, badges, now>>

(***************************************************************************)
(* Collection::withdraw_donations.                                         *)
(***************************************************************************)
\* Faulty variant of take_all: half of the vault is taken.
take_half(vault) == [bucket |-> vault \div 2, vault |-> vault - (vault \div 2)]

\* Vault::take_all: the bucket taken and what the vault keeps.
take_all(vault) == [bucket |-> vault, vault |-> 0]

withdraw_donations(caller, c) ==
    /\ c \in CollectionIndexes
    /\ IF ~collection_method_auth("withdraw_donations", c, caller)
       THEN Abort("withdraw_donations", caller, c, 0, {})
       ELSE /\ collections' = [collections EXCEPT
                                  ![c].donations = take_all(collections[c].donations).vault]
            /\ book' = [book EXCEPT !.paid_out[c] = @ + take_all(collections[c].donations).bucket]
            /\ Commit("withdraw_donations", caller, c, 0, {},
                               take_all(collections[c].donations).bucket)
            /\ UNCHANGED <<domain, trophies, holder, next_ruid, minter_badge_supply,
                           non_fungible_data_updater, badges, now, ledger>>

(***************************************************************************)
(* Repository::update_base_path.                                           *)
(***************************************************************************)
\* Faulty variant of refresh_urls: an id that is not live is passed over.
refresh_urls_skipping_missing(t, new_base_path, ids) ==
    [panicked |-> FALSE,
     trophies |-> [i \in DOMAIN t |->
                      IF i \in ids
                      THEN [t[i] EXCEPT !.key_image_url =
                               generate_url(new_base_path, t[i].donated, t[i].created,
                                            t[i].collection_id)]
                      ELSE t[i]]]

\* Faulty variant of refresh_urls: every live trophy is migrated at once.
refresh_urls_eager(t, new_base_path, ids) ==
    [panicked |-> FALSE,
     trophies |-> [i \in DOMAIN t |->
                      [t[i] EXCEPT !.key_image_url =
                          generate_url(new_base_path, t[i].donated, t[i].created,
                                       t[i].collection_id)]]]

\* The loop over update_nft_ids: each listed trophy gets its key_image_url
\* regenerated under new_base_path.  Reading a local id that does not exist
\* panics.
RECURSIVE refresh_urls(_, _, _)
refresh_urls(t, new_base_path, ids) ==
    IF ids = {} THEN [panicked |-> FALSE, trophies |-> t]
    ELSE LET nft_id == CHOOSE i \in ids : TRUE IN
         IF nft_id \notin DOMAIN t THEN [panicked |-> TRUE, trophies |-> t]
         ELSE LET data == t[nft_id]
                  key_image_url == generate_url(new_base_path, data.donated, data.created,
                                                data.collection_id)
              IN  refresh_urls(update_non_fungible_data(t, nft_id, "key_image_url",
                                                        key_image_url),
                               new_base_path, ids \ {nft_id})

update_base_path(caller, new_base_path, update_nft_ids) ==
    LET refreshed == refresh_urls(trophies, new_base_path, update_nft_ids) IN
    IF \/ ~repository_method_auth("update_base_path", caller)
       \/ refreshed.panicked
       \/ ~non_fungible_data_updater_rule({}, "repository")
    THEN Abort("update_base_path", caller, 0, new_base_path, update_nft_ids)
    ELSE /\ domain' = new_base_path
         /\ trophies' = refreshed.trophies
         /\ Commit("update_base_path", caller, 0, new_base_path, update_nft_ids, 0)
         /\ UNCHANGED <<holder, next_ruid, collections, minter_badge_supply, non_fungible_data_updater, badges,
                        now, ledger, book>>

(***************************************************************************)
(* Repository::merge_trophies.                                             *)
(***************************************************************************)
\* The buckets `caller` can hand in: any set of trophies it holds (the empty
\* bucket included), or a bucket of another resource.
BucketsOf(caller) ==
    {[resource_address |-> XRD, ids |-> {}]}
        \cup {[resource_address |-> trophy_resource_address, ids |-> S] :
                 S \in {T \in SUBSET {j \in Live : holder[j] = caller} :
                            Cardinality(T) <= MaxBucket}}

\* The orders in which non_fungibles() can list the bucket's content.
RECURSIVE Orderings(_)
Orderings(S) ==
    IF S = {} THEN {<< >>}
    ELSE UNION {{<<x>> \o list : list \in Orderings(S \ {x})} : x \in S}

\* Faulty variant of template_matches: the collection_id assert is missing.
template_matches_without_collection_id(data, template) ==
    /\ data.info_url = template.info_url
    /\ data.name = template.name

\* The three assert_eq! of the loop body.
template_matches(data, template) ==
    /\ data.collection_id = template.collection_id
    /\ data.info_url = template.info_url
    /\ data.name = template.name

\* Faulty variant of is_earlier: the comparison is Gt.
is_later(trophy_date, earliest_created) ==
    to_instant(trophy_date) > to_instant(earliest_created)

\* trophy_date.to_instant().compare(earliest_created.to_instant(), Lt)
is_earlier(trophy_date, earliest_created) ==
    to_instant(trophy_date) < to_instant(earliest_created)

\* Faulty variant of initial_earliest_created: the minimum starts at the epoch.
initial_earliest_created_at_epoch == from_instant(0)

\* The start of the running minimum: the current time.
initial_earliest_created == from_instant(now)

\* Faulty variant of merge_step: donated is assigned, not accumulated.
merge_step_assigning(acc, data, template) ==
    IF acc.panicked \/ ~template_matches(data, template)
    THEN [acc EXCEPT !.panicked = TRUE]
    ELSE LET trophy_date == parse_created_string(data.created) IN
         [panicked |-> FALSE,
          earliest_created |-> IF is_earlier(trophy_date, acc.earliest_created)
                               THEN trophy_date ELSE acc.earliest_created,
          donated |-> data.donated]

\* One pass of the loop body over the trophy with data `data`.
merge_step(acc, data, template) ==
    IF acc.panicked \/ ~template_matches(data, template)
    THEN [acc EXCEPT !.panicked = TRUE]
    ELSE LET trophy_date == parse_created_string(data.created) IN
         [panicked |-> FALSE,
          earliest_created |-> IF is_earlier(trophy_date, acc.earliest_created)
                               THEN trophy_date ELSE acc.earliest_created,
          donated |-> acc.donated + data.donated]

RECURSIVE merge_scan(_, _, _, _)
merge_scan(t, list, template, acc) ==
    IF list = << >> THEN acc
    ELSE merge_scan(t, Tail(list), template, merge_step(acc, t[Head(list)], template))

\* The data of the trophy a merge of `list` mints; panicked when an assert fails.
merged_trophy(t, list) ==
    LET template == t[list[1]]
        scanned == merge_scan(t, list, template,
                              [panicked |-> FALSE,
                               earliest_created |-> initial_earliest_created,
                               donated |-> 0])
        created == created_string_of(scanned.earliest_created)
    IN  [panicked |-> scanned.panicked,
         data |-> [name |-> template.name,
                   info_url |-> template.info_url,
                   collection_id |-> template.collection_id,
                   created |-> created,
                   donated |-> scanned.donated,
                   key_image_url |-> generate_url(domain, scanned.donated, created,
                                                  template.collection_id)]]

merge_trophies(caller, bucket, trophies_list) ==
    LET merged == merged_trophy(trophies, trophies_list) IN
    IF \/ bucket.resource_address # trophy_resource_address
       \/ trophies_list = << >>
       \/ merged.panicked
       \/ ~burner_rule({}, "repository")
       \/ ~minter_rule({}, "repository")
    THEN Abort("merge_trophies", caller, 0, bucket.resource_address, bucket.ids)
    ELSE /\ LET new_trophy_data == merged.data
                new_id == generate_ruid(next_ruid)
            IN  /\ trophies' = mint_ruid_non_fungible(burn(trophies, bucket.ids), new_id,
                                                      new_trophy_data)
                /\ holder' = (new_id :> caller) @@ burn(holder, bucket.ids)
                /\ ledger' = (new_id :>
                                 [payments |-> SumOver([i \in bucket.ids |-> ledger[i].payments],
                                                       bucket.ids),
                                  count |-> SumOver([i \in bucket.ids |-> ledger[i].count],
                                                    bucket.ids),
                                  merged |-> TRUE])
                              @@ burn(ledger, bucket.ids)
                /\ next_ruid' = next_ruid + 1
                /\ Commit("merge_trophies", caller, 0, bucket.resource_address, bucket.ids, new_id)
         /\ UNCHANGED <<domain, collections, minter_badge_supply, non_fungible_data_updater, badges, now, book>>

(***************************************************************************)
(* Calls made on the trophy resource manager directly from a transaction   *)
(* manifest: the roles of the resource are checked against the signer's    *)
(* auth zone, and no global component is the caller.                       *)
(***************************************************************************)
\* The data a direct mint would write.
ForgedData ==
    [name |-> <<"Forged", "'s Trophy">>,
     info_url |-> <<domain, "/p/", "forged">>,
     collection_id |-> 1,
     created |-> generate_created_string,
     donated |-> 1000,
     key_image_url |-> << >>]

\* set_role on the trophy resource for non_fungible_data_updater: allowed to
\* whoever satisfies the rule of non_fungible_data_updater_updater.
set_role(caller, rule) ==
    IF ~non_fungible_data_updater_updater_rule(AuthZoneOf(caller), "none")
    THEN Abort("set_role", caller, 0, rule, {})
    ELSE /\ non_fungible_data_updater' = rule
         /\ Commit("set_role", caller, 0, rule, {}, 0)
         /\ UNCHANGED <<domain, trophies, holder, next_ruid, collections, minter_badge_supply,
                        badges, now, ledger, book>>

direct_mint(caller) ==
    IF ~minter_rule(AuthZoneOf(caller), "none")
    THEN Abort("mint_ruid_non_fungible", caller, 0, 0, {})
    ELSE LET nft_id == generate_ruid(next_ruid) IN
         /\ trophies' = mint_ruid_non_fungible(trophies, nft_id, ForgedData)
         /\ holder' = (nft_id :> caller) @@ holder
         /\ ledger' = (nft_id :> [payments |-> 0, count |-> 0, merged |-> TRUE]) @@ ledger
         /\ next_ruid' = next_ruid + 1
         /\ book' = [book EXCEPT !.overwritten = TRUE]
         /\ Commit("mint_ruid_non_fungible", caller, 0, 0, {nft_id}, nft_id)
         /\ UNCHANGED <<domain, collections, minter_badge_supply, non_fungible_data_updater,
                        badges, now>>

direct_update(caller, nft_id, donated) ==
    IF nft_id \notin Live \/ ~non_fungible_data_updater_rule(AuthZoneOf(caller), "none")
    THEN Abort("update_non_fungible_data", caller, 0, donated, {nft_id})
    ELSE /\ trophies' = update_non_fungible_data(trophies, nft_id, "donated", donated)
         /\ ledger' = [ledger EXCEPT ![nft_id].merged = TRUE]
         /\ book' = [book EXCEPT !.overwritten = TRUE]
         /\ Commit("update_non_fungible_data", caller, 0, donated, {nft_id}, 0)
         /\ UNCHANGED <<domain, holder, next_ruid, collections, minter_badge_supply,
                        non_fungible_data_updater, badges, now>>

direct_burn(caller, nft_id) ==
    IF nft_id \notin Live \/ holder[nft_id] # caller \/ ~burner_rule(AuthZoneOf(caller), "none")
    THEN Abort("burn", caller, 0, 0, {nft_id})
    ELSE /\ trophies' = burn(trophies, {nft_id})
         /\ holder' = burn(holder, {nft_id})
         /\ ledger' = burn(ledger, {nft_id})
         /\ book' = [book EXCEPT !.overwritten = TRUE]
         /\ Commit("burn", caller, 0, 0, {nft_id}, 0)
         /\ UNCHANGED <<domain, next_ruid, collections, minter_badge_supply,
                        non_fungible_data_updater, badges, now>>

(***************************************************************************)
(* The ledger: any transaction, by any account.                            *)
(***************************************************************************)
\* The id lists handed to update_base_path: the owner account passes any
\* set of live trophies, or every id ever handed out (burned ones
\* included); another account passes the live ones.
IdLists(caller) ==
    IF caller = "owner" THEN (SUBSET Live) \cup {1..(next_ruid - 1)} ELSE {Live}

\* A transaction can be recorded: as committed while the budget of
\* transactions lasts, as failed after a committed one.
Submittable == transactions < MaxTransactions \/ last.committed

Provision == \E profile \in ProfilesFor(Len(collections) + 1) : new_collection_component(profile)
DonateMint == /\ Submittable
              /\ \E caller \in Donors, c \in CollectionIndexes, tokens \in Amounts :
                     donate_mint(caller, c, tokens)
DonateUpdate == /\ Submittable
                /\ \E caller \in Donors, c \in CollectionIndexes, tokens \in Amounts :
                       \E proof \in ProofsOf(caller) : donate_update(caller, c, tokens, proof)
Withdraw == /\ Submittable
            /\ \E caller \in Accounts, c \in CollectionIndexes : withdraw_donations(caller, c)
UpdateBasePath == /\ Submittable
                  /\ \E caller \in Accounts, new_base_path \in BasePaths :
                         \E update_nft_ids \in IdLists(caller) :
                             update_base_path(caller, new_base_path, update_nft_ids)
Merge == /\ Submittable
         /\ \E caller \in Donors : \E bucket \in BucketsOf(caller) :
                \E trophies_list \in Orderings(bucket.ids) :
                    merge_trophies(caller, bucket, trophies_list)
SetRole == /\ Submittable
           /\ \E caller \in Accounts, rule \in UpdaterRules : set_role(caller, rule)
DirectMint == /\ Submittable
              /\ \E caller \in Accounts : direct_mint(caller)
\* The trophy a direct call is tried on: the oldest live one.
Target == MinOf(Live)
DirectUpdate == /\ Submittable
                /\ \E caller \in Accounts : Live # {} /\ direct_update(caller, Target, 1000)
DirectBurn == /\ Submittable
              /\ \E caller \in Donors : Live # {} /\ direct_burn(caller, Target)

Next ==
    \/ Tick
    \/ Provision
    \/ DonateMint
    \/ DonateUpdate
    \/ Withdraw
    \/ UpdateBasePath
    \/ Merge
    \/ SetRole
    \/ DirectMint
    \/ DirectUpdate
    \/ DirectBurn

Spec == Init /\ [][Next]_vars

(***************************************************************************)
(* Properties.                                                             *)
(***************************************************************************)
MergeCommitted == last.op = "merge_trophies" /\ last.committed
WithdrawCommitted == last.op = "withdraw_donations" /\ last.committed

\* The instant (midnight) a created string stands for.
CreatedInstant(created) == to_instant(parse_created_string(created))

\* C1: a trophy minted by donate_mint and then updated by donate_update has
\* donated = the sum of the payments made on it + royalty_amount of its
\* Collection times the number of donations made on it.
C1_DonatedIsPaymentsPlusRoyalties ==
    \A id \in Live :
        ~ledger[id].merged =>
            trophies[id].donated =
                ledger[id].payments
                    + collections[trophies[id].collection_id].royalty_amount * ledger[id].count

\* C2: after a committed donate_mint or donate_update the touched trophy's
\* key_image_url is the URL derived from the current base path and the
\* trophy's own donated, created and collection_id.
C2_TouchedUrlIsDerivedFromOwnFields ==
    (last.op \in {"donate_mint", "donate_update"} /\ last.committed) =>
        \A id \in last.ids :
            trophies[id].key_image_url =
                generate_url(domain, trophies[id].donated, trophies[id].created,
                             trophies[id].collection_id)

\* C3: the trophy a committed merge mints has donated = the sum of the
\* donated values of the merged trophies.
C3_MergeSumPreserving ==
    [][MergeCommitted' =>
          trophies'[last'.out].donated =
              SumOver([i \in last'.ids |-> trophies[i].donated], last'.ids)]_vars

C3_Witness ==
    /\ MergeCommitted
    /\ Cardinality(last.ids) = 2
    /\ trophies[last.out].donated > 0

\* C4: the trophy a committed merge mints has the created date of the
\* chronologically earliest merged trophy.
C4_MergeEarliestCreated ==
    [][MergeCommitted' =>
          \E i \in last'.ids :
              /\ trophies'[last'.out].created = trophies[i].created
              /\ \A j \in last'.ids :
                     CreatedInstant(trophies[i].created) <= CreatedInstant(trophies[j].created)]_vars

C4_Witness ==
    /\ MergeCommitted
    /\ Cardinality(last.ids) = 2
    /\ trophies[last.out].created # generate_created_string

\* C5: a merge of a set holding two trophies that differ in collection_id,
\* info_url or name aborts: nothing is burned, nothing is minted.
C5_MergeRejectsMixedSets ==
    [][(/\ last'.op = "merge_trophies"
        /\ \E i, j \in last'.ids :
               \/ trophies[i].collection_id # trophies[j].collection_id
               \/ trophies[i].info_url # trophies[j].info_url
               \/ trophies[i].name # trophies[j].name)
       => (/\ ~last'.committed
           /\ trophies' = trophies
           /\ holder' = holder
           /\ next_ruid' = next_ruid)]_vars

C5_Witness ==
    /\ last.op = "merge_trophies"
    /\ ~last.committed
    /\ \E i, j \in last.ids :
           /\ trophies[i].collection_id # trophies[j].collection_id
           /\ trophies[i].info_url = trophies[j].info_url
           /\ trophies[i].name = trophies[j].name

\* The created string of the earliest of the trophies `ids`.
EarliestCreated(ids) ==
    LET i == CHOOSE k \in ids : \A j \in ids :
                 CreatedInstant(trophies[k].created) <= CreatedInstant(trophies[j].created)
    IN  trophies[i].created

\* C6: a committed merge of n trophies burns all of them and mints exactly
\* one fresh trophy with their name, info_url and collection_id and with the
\* key_image_url derived from the current base path, the summed donated and
\* the earliest created; n - 1 fewer trophies are live.
C6_MergeBurnsInputsMintsOne ==
    [][MergeCommitted' =>
          LET ids == last'.ids
              new == last'.out
              sum == SumOver([i \in ids |-> trophies[i].donated], ids)
          IN  /\ ids # {}
              /\ ids \subseteq Live
              /\ new \notin Live
              /\ DOMAIN trophies' = (Live \ ids) \cup {new}
              /\ Cardinality(DOMAIN trophies') = Cardinality(Live) - (Cardinality(ids) - 1)
              /\ \A i \in Live \ ids : trophies'[i] = trophies[i]
              /\ \A i \in ids :
                     /\ trophies'[new].name = trophies[i].name
                     /\ trophies'[new].info_url = trophies[i].info_url
                     /\ trophies'[new].collection_id = trophies[i].collection_id
              /\ trophies'[new].key_image_url =
                     generate_url(domain', sum, EarliestCreated(ids),
                                  trophies'[new].collection_id)]_vars

C6_Witness ==
    /\ MergeCommitted
    /\ Cardinality(last.ids) = 2
    /\ Live = {last.out}
    /\ domain # InitialBasePath

\* C7: withdraw_donations by a caller without the Collection's admin badge
\* aborts and leaves the vault (the whole component) unchanged.
C7_WithdrawNeedsAdminBadge ==
    [][(/\ last'.op = "withdraw_donations"
        /\ collections[last'.component].admin \notin badges[last'.caller])
       => (~last'.committed /\ collections' = collections)]_vars

C7_Witness ==
    /\ last.op = "withdraw_donations"
    /\ ~last.committed
    /\ collections[last.component].admin \notin badges[last.caller]
    /\ collections[last.component].donations > 0

\* C8: a committed withdraw_donations returns the whole balance the vault
\* had and leaves it at 0; no trophy, no other Collection and not the base
\* path changes; repeated at once, it returns 0.
C8_WithdrawDrainsVault ==
    [][WithdrawCommitted' =>
          LET c == last'.component IN
          /\ last'.out = collections[c].donations
          /\ collections'[c].donations = 0
          /\ collections' = [collections EXCEPT ![c].donations = 0]
          /\ trophies' = trophies
          /\ domain' = domain
          /\ (WithdrawCommitted /\ last.component = c) => last'.out = 0]_vars

C8_Witness ==
    /\ WithdrawCommitted
    /\ last.out > 0
    /\ collections[last.component].donations = 0

\* C9: every Collection has an admin badge resource of its own, held by one
\* account, and withdraw_donations on a Collection commits exactly for a
\* caller holding that Collection's badge.
C9_AdminBadgePerCollection ==
    /\ \A c, k \in CollectionIndexes : c # k => collections[c].admin # collections[k].admin
    /\ \A c \in CollectionIndexes :
           Cardinality({a \in Accounts : collections[c].admin \in badges[a]}) = 1
    /\ last.op = "withdraw_donations" =>
           (last.committed <=> collections[last.component].admin \in badges[last.caller])

C9_Witness ==
    /\ last.op = "withdraw_donations"
    /\ ~last.committed
    /\ \E k \in CollectionIndexes :
           k # last.component /\ collections[k].admin \in badges[last.caller]

\* C10: update_base_path by a caller without the owner badge aborts and
\* changes neither the base path nor any trophy; by the owner-badge holder,
\* on live trophies, it commits.
C10_UpdateBasePathNeedsOwnerBadge ==
    [][last'.op = "update_base_path" =>
          IF repository_owner_access_badge_address \notin badges[last'.caller]
          THEN ~last'.committed /\ domain' = domain /\ trophies' = trophies
          ELSE last'.ids \subseteq Live => last'.committed]_vars

C10_Witness ==
    /\ last.op = "update_base_path"
    /\ ~last.committed
    /\ repository_owner_access_badge_address \notin badges[last.caller]
    /\ badges[last.caller] # {}
    /\ \E id \in Live : holder[id] = last.caller

UpdateBasePathCommitted == last.op = "update_base_path" /\ last.committed

\* C11: a committed update_base_path(new_path, ids) sets the base path to
\* new_path; every listed trophy gets the key_image_url derived from new_path
\* and its own donated, created and collection_id and keeps its other fields;
\* every trophy not listed keeps all its fields, its stale key_image_url
\* included; nothing is minted or burned.
C11_LazyMigration ==
    [][UpdateBasePathCommitted' =>
          /\ domain' = last'.arg
          /\ last'.ids \subseteq Live
          /\ DOMAIN trophies' = Live
          /\ \A id \in Live :
                 trophies'[id] =
                     IF id \in last'.ids
                     THEN [trophies[id] EXCEPT !.key_image_url =
                              generate_url(last'.arg, trophies[id].donated,
                                           trophies[id].created, trophies[id].collection_id)]
                     ELSE trophies[id]]_vars

C11_Witness ==
    /\ UpdateBasePathCommitted
    /\ \E id \in last.ids : trophies[id].key_image_url[1] = domain
    /\ \E id \in Live \ last.ids : trophies[id].key_image_url[1] # domain

\* C12: donate_update with a proof of a resource other than the trophy
\* resource aborts: no trophy changes and the payment is not deposited.
C12_WrongProofRejected ==
    [][(/\ last'.op = "donate_update"
        /\ last'.arg.proof.resource_address # trophy_resource_address)
       => (/\ ~last'.committed
           /\ trophies' = trophies
           /\ collections' = collections
           /\ holder' = holder)]_vars

C12_Witness ==
    /\ last.op = "donate_update"
    /\ last.arg.proof.resource_address = XRD
    /\ last.arg.tokens > 0
    /\ ~last.committed
    /\ \E id \in Live : holder[id] = last.caller

\* C13: donate_mint commits for any caller; with payment p it mints exactly
\* one fresh trophy, held by the caller, with the Collection's collection_id,
\* today's date as created and donated = p + royalty_amount; every other
\* trophy is as before; the Collection's vault grows by exactly p and no other
\* component changes.
C13_DonateMint ==
    [][last'.op = "donate_mint" =>
          LET c == last'.component
              p == last'.arg
              id == last'.out
          IN  /\ last'.committed
              /\ id \notin Live
              /\ DOMAIN trophies' = Live \cup {id}
              /\ \A i \in Live : trophies'[i] = trophies[i]
              /\ holder'[id] = last'.caller
              /\ trophies'[id].collection_id = collections[c].collection_id
              /\ trophies'[id].created = format_date(from_instant(now))
              /\ trophies'[id].donated = p + collections[c].royalty_amount
              /\ collections' = [collections EXCEPT ![c].donations = @ + p]]_vars

C13_Witness ==
    /\ last.op = "donate_mint"
    /\ last.committed
    /\ badges[last.caller] \cap {collections[last.component].admin, minter_badge_address,
                                 repository_owner_access_badge_address} = {}
    /\ trophies[last.out].donated = last.arg + collections[last.component].royalty_amount
    /\ holder[last.out] = last.caller

\* The local ids the resource manager has handed out so far.
Issued == 1..(next_ruid - 1)

\* C14: the set of live trophies changes only by a committed donate_mint
\* (one fresh id is added) and a committed merge (all inputs are removed, one
\* fresh id is added); every other step leaves it as it is; an id once
\* handed out is never handed out again, so a burned id never becomes live
\* again; trophies are burned by merge only, and a burn from a transaction
\* manifest aborts.
C14_RecordLifecycle ==
    [][/\ Live \subseteq Issued
       /\ Issued \subseteq 1..(next_ruid' - 1)
       /\ (Live' \ Live) \cap Issued = {}
       /\ Live' \subseteq 1..(next_ruid' - 1)
       /\ (Live \ Live' # {}) => MergeCommitted'
       /\ last'.op = "burn" => ~last'.committed
       /\ IF last'.op = "donate_mint" /\ last'.committed
          THEN Live' = Live \cup {last'.out} /\ last'.out \notin Live
          ELSE IF MergeCommitted'
          THEN /\ last'.ids # {}
               /\ last'.ids \subseteq Live
               /\ last'.out \notin Live
               /\ Live' = (Live \ last'.ids) \cup {last'.out}
          ELSE Live' = Live]_vars

C14_Witness ==
    /\ last.op = "donate_mint"
    /\ last.committed
    /\ Issued \ Live # {}
    /\ last.out = next_ruid - 1
    /\ Cardinality(Live) >= 2

TouchesNoIdentity == {"donate_update", "update_base_path", "withdraw_donations"}

\* C15: donate_update, update_base_path and withdraw_donations never change
\* the name, info_url, collection_id or created of a live trophy.
C15_IdentityFieldsImmutable ==
    [][last'.op \in TouchesNoIdentity =>
          /\ Live' = Live
          /\ \A id \in Live :
                 /\ trophies'[id].name = trophies[id].name
                 /\ trophies'[id].info_url = trophies[id].info_url
                 /\ trophies'[id].collection_id = trophies[id].collection_id
                 /\ trophies'[id].created = trophies[id].created]_vars

C15_Witness ==
    /\ last.op = "donate_update"
    /\ last.committed
    /\ \E id \in last.ids :
           /\ trophies[id].created # generate_created_string
           /\ trophies[id].info_url[1] # domain
           /\ trophies[id].key_image_url[1] = domain

\* C16: no donate_update, update_base_path or withdraw_donations step lowers
\* the donated of a live trophy; a withdrawal leaves it as it is.
C16_DonatedMonotone ==
    [][last'.op \in TouchesNoIdentity =>
          \A id \in Live \cap DOMAIN trophies' :
              /\ trophies'[id].donated >= trophies[id].donated
              /\ last'.op = "withdraw_donations" =>
                     trophies'[id].donated = trophies[id].donated]_vars

C16_Witness ==
    /\ last.op = "donate_update"
    /\ last.committed
    /\ \E id \in last.ids :
           /\ ledger[id].count >= 2
           /\ trophies[id].donated > ledger[id].payments
    /\ \E c \in CollectionIndexes : collections[c].donations = 0

WritesTrophy == \E id \in DOMAIN trophies' : id \notin Live \/ trophies'[id] # trophies[id]

C18_MinterBadgesStayInCustody ==
    /\ minter_badge_supply = Len(collections)
    /\ \A c \in CollectionIndexes : collections[c].minter_badge = 1
    /\ SumOver([c \in CollectionIndexes |-> collections[c].minter_badge], CollectionIndexes)
           = minter_badge_supply
    /\ \A a \in Accounts : minter_badge_address \notin badges[a]

C18_Witness ==
    /\ Len(collections) = 2
    /\ WithdrawCommitted
    /\ last.out > 0
    /\ \E a \in Accounts : Cardinality(badges[a]) >= 2
    /\ Live # {}

\* C19: update_base_path with an id list holding an id that is not live
\* (never minted, or burned by a merge) aborts, and the base path and every
\* trophy are as before the call, though the code sets the base path before
\* it walks the list.
C19_UpdateBasePathAllOrNothing ==
    [][(last'.op = "update_base_path" /\ ~(last'.ids \subseteq Live))
       => (/\ ~last'.committed
           /\ domain' = domain
           /\ trophies' = trophies)]_vars

C19_Witness ==
    /\ last.op = "update_base_path"
    /\ ~last.committed
    /\ repository_owner_access_badge_address \in badges[last.caller]
    /\ last.ids \cap Live # {}
    /\ last.ids \ Live # {}
    /\ last.arg # domain
    /\ \A id \in Live : trophies[id].key_image_url[1] = domain

\* The donation calls that can be made in the current state: the method, the
\* Collection addressed, the payment and (donate_update) the proof.
DonationCalls ==
    {[method |-> "donate_mint", c |-> c, tokens |-> tokens,
      proof |-> [resource_address |-> XRD, local_id |-> 0]] :
         c \in CollectionIndexes, tokens \in Amounts}
        \cup {[method |-> "donate_update", c |-> c, tokens |-> tokens, proof |-> proof] :
                 c \in CollectionIndexes, tokens \in Amounts,
                 proof \in UNION {ProofsOf(caller) : caller \in Donors}}

\* The trophies, components and next fresh id after the donation call `call`
\* is run on w; a call that panics leaves w as it is.
AfterDonation(w, call) ==
    LET run == IF call.method = "donate_mint"
               THEN donate_mint_body(w.trophies, w.collections, w.next_ruid, call.c,
                                     call.tokens)
               ELSE donate_update_body(w.trophies, w.collections, call.c, call.tokens,
                                       call.proof)
    IN  IF run.panicked THEN w
        ELSE [trophies |-> run.trophies,
              collections |-> run.collections,
              next_ruid |-> IF call.method = "donate_mint" THEN w.next_ruid + 1
                            ELSE w.next_ruid]

\* w with the two ids handed out after next_ruid exchanged.
FreshIdsExchanged(w) ==
    LET a == next_ruid
        b == next_ruid + 1
    IN  IF {a, b} \subseteq DOMAIN w.trophies
        THEN [w EXCEPT !.trophies = [i \in DOMAIN w.trophies |->
                                        w.trophies[IF i = a THEN b ELSE IF i = b THEN a ELSE i]]]
        ELSE w

\* C20: two donation calls addressed to two different Collections leave the
\* same trophies (every field) and the same vault balances in either order,
\* up to the naming of the ids minted.
C20_DonationsOnDifferentCollectionsCommute ==
    LET w == [trophies |-> trophies, collections |-> collections, next_ruid |-> next_ruid] IN
    \A a, b \in DonationCalls :
        a.c # b.c =>
            LET ab == AfterDonation(AfterDonation(w, a), b)
                ba == AfterDonation(AfterDonation(w, b), a)
            IN  ab = ba \/ FreshIdsExchanged(ab) = ba

\* C21: a merge of a single trophy commits; it burns the trophy and mints
\* one fresh trophy with the same name, info_url, collection_id, donated and
\* created, its key_image_url derived from the current base path; no other
\* trophy changes.
C21_SingleMergePreservesValue ==
    [][(last'.op = "merge_trophies" /\ Cardinality(last'.ids) = 1 /\ last'.ids \subseteq Live)
       => \A i \in last'.ids :
              LET new == last'.out IN
              /\ last'.committed
              /\ new \notin Issued
              /\ DOMAIN trophies' = (Live \ {i}) \cup {new}
              /\ trophies'[new].name = trophies[i].name
              /\ trophies'[new].info_url = trophies[i].info_url
              /\ trophies'[new].collection_id = trophies[i].collection_id
              /\ trophies'[new].donated = trophies[i].donated
              /\ trophies'[new].created = trophies[i].created
              /\ trophies'[new].key_image_url =
                     generate_url(domain, trophies[i].donated, trophies[i].created,
                                  trophies[i].collection_id)
              /\ \A j \in Live \ {i} : trophies'[j] = trophies[j]]_vars

C21_Witness ==
    /\ MergeCommitted
    /\ Cardinality(last.ids) = 1
    /\ trophies[last.out].created # generate_created_string
    /\ trophies[last.out].info_url[1] # domain
    /\ trophies[last.out].key_image_url[1] = domain
    /\ trophies[last.out].donated > 0

\* C22: a committed donate_update on a Collection touched a trophy of that
\* Collection: the trophy's collection_id is the Collection's.
C22_DonateUpdateOnOwnTrophiesOnly ==
    (last.op = "donate_update" /\ last.committed) =>
        \A id \in last.ids :
            trophies[id].collection_id = collections[last.component].collection_id

\* C23: two live trophies with the same collection_id have the same name
\* and the same info_url.
C23_SameCollectionSameTemplate ==
    \A i, j \in Live :
        trophies[i].collection_id = trophies[j].collection_id =>
            /\ trophies[i].name = trophies[j].name
            /\ trophies[i].info_url = trophies[j].info_url

\* C24: for every Collection, the vault balance plus what
\* withdraw_donations has paid out equals the sum of the payments of the
\* committed donate_mint and donate_update calls on it: royalty_amount is
\* never deposited, and no other operation changes a vault.
C24_CustodyConservation ==
    /\ Len(book.paid_in) = Len(collections)
    /\ \A c \in CollectionIndexes :
           collections[c].donations + book.paid_out[c] = book.paid_in[c]

C24_Witness ==
    /\ last.op = "donate_update"
    /\ last.committed
    /\ book.paid_out[last.component] > 0
    /\ collections[last.component].donations > 0
    /\ collections[last.component].royalty_amount > 0

\* C25: as long as trophies are written only by donate_mint, donate_update,
\* merge_trophies and update_base_path, the sum of donated over the live
\* trophies equals the sum, over the committed donations, of the payment plus
\* the royalty_amount of the Collection called.
C25_GlobalAccounting ==
    ~book.overwritten =>
        SumOver([id \in Live |-> trophies[id].donated], Live) = book.credited

C25_Witness ==
    /\ MergeCommitted
    /\ Cardinality(last.ids) = 2
    /\ ~book.overwritten
    /\ book.credited > 0
    /\ \E c \in CollectionIndexes : book.paid_out[c] > 0

====
